---- MODULE Spec2Model ----
(***************************************************************************)
(* Model of the study-screening scripts find_age.py (age-evidence mining   *)
(* and the eligibility decision) and find_links.py (the identifier         *)
(* resolution chain).  Texts, titles, identifiers and URLs are sequences   *)
(* of one-character strings; the regular expressions of the source are     *)
(* translated into matchers over those sequences.                          *)
(***************************************************************************)
EXTENDS Integers, Sequences, FiniteSets, TLC

VARIABLES
    pc,           \* position of the running script
    df,           \* the rows of the input CSV
    args_n,       \* args.n: how many rows to process
    serpapi_key,  \* find_links: args.serpapi_key
    row_i,        \* the position of the iterator df.iterrows()
    tried,        \* find_links: the counter of main
    found_doi,    \* find_links: main.found_doi
    found_url,    \* find_links: main.found_url
    source,       \* find_links: main.source
    processed,    \* find_age: the counter of main
    rows,         \* the output rows appended so far
    log,          \* the network calls and sleeps issued so far, in order
    text,         \* find_age: the document text being mined
    evid,         \* find_age: the evidence list of the current document
    dec           \* find_age: the AgeDecision of the current document

vars == <<pc, df, args_n, serpapi_key, row_i, tried, found_doi, found_url, source,
          processed, rows, log, text, evid, dec>>

mainVars == <<df, args_n, serpapi_key, row_i, tried, found_doi, found_url, source,
              processed, rows, log>>

---------------------------------------------------------------------------
(* Strings *)

\* The characters of a string literal, as a sequence of one-character strings.
Chars(s) == [k \in 1..Len(s) |-> SubSeq(s, k, k)]

UpperLetters == Chars("ABCDEFGHIJKLMNOPQRSTUVWXYZ")
LowerLetters == Chars("abcdefghijklmnopqrstuvwxyz")
Digits == Chars("0123456789")

LowerOf == [c \in {UpperLetters[k] : k \in 1..Len(UpperLetters)} |->
               LowerLetters[CHOOSE k \in 1..Len(UpperLetters) : UpperLetters[k] = c]]

\* str.lower() on one character
LowerChar(c) == IF c \in DOMAIN LowerOf THEN LowerOf[c] ELSE c

\* str.lower()
Lower(s) == [k \in 1..Len(s) |-> LowerChar(s[k])]

\* the characters \s matches
IsSpace(c) == c \in {" ", "\t", "\n", "\r"}

DigitOf == [c \in {Digits[k] : k \in 1..Len(Digits)} |->
               (CHOOSE k \in 1..Len(Digits) : Digits[k] = c) - 1]

\* the characters \d matches
IsDigit(c) == c \in DOMAIN DigitOf

DigitVal(c) == DigitOf[c]

\* s[i:j] of Python, on 0-based offsets i <= j
Slice(s, i, j) == SubSeq(s, i + 1, j)

\* s[:k]
Prefix(s, k) == SubSeq(s, 1, IF k < Len(s) THEN k ELSE Len(s))

\* whether lit occurs in s at 0-based offset i
LitAt(s, i, lit) ==
    /\ i + Len(lit) <= Len(s)
    /\ \A k \in 1..Len(lit) : s[i + k] = lit[k]

\* the same, ignoring case (re.I); lit is lower case
LitAtI(s, i, lit) ==
    /\ i + Len(lit) <= Len(s)
    /\ \A k \in 1..Len(lit) : LowerChar(s[i + k]) = lit[k]

\* lit in s
Contains(s, lit) == \E i \in 0..Len(s) : LitAt(s, i, lit)

\* the least offset >= i at which s has no white space (skips \s*)
RECURSIVE SkipSpace(_, _)
SkipSpace(s, i) ==
    IF i < Len(s) /\ IsSpace(s[i + 1]) THEN SkipSpace(s, i + 1) ELSE i

---------------------------------------------------------------------------
(* find_age.py: constants and the AgeEvidence record *)

AGE_MIN == 2
AGE_MAX == 17

\* Number of fractional digits kept of a float; ages are held as integers in
\* units of 1/Scale of a year.
FracDigits == 1
Scale == 10 ^ FracDigits

\* Optional[...]: None, or a value
None == <<>>
Some(v) == <<v>>
Val(o) == o[1]

\* AgeEvidence whose value field is also filled for a band, with its low bound
AgeEvidence_value_for_band(kind, value, low, high, context) ==
    [kind |-> kind, value |-> IF value = None THEN low ELSE value,
     low |-> low, high |-> high, context |-> context]

AgeEvidence(kind, value, low, high, context) ==
    [kind |-> kind, value |-> value, low |-> low, high |-> high,
     context |-> context]

\* the positions of s that _clean keeps: every non-space character, and the
\* first character of each white-space run that is neither leading nor trailing
KeptByClean(s, k) ==
    \/ ~IsSpace(s[k])
    \/ /\ k > 1
       /\ ~IsSpace(s[k - 1])
       /\ \E m \in (k + 1)..Len(s) : ~IsSpace(s[m])

\* re.sub(r"\s+", " ", s).strip()
_clean(s) ==
    LET kept == SelectSeq([k \in 1..Len(s) |-> k], LAMBDA k : KeptByClean(s, k))
    IN  [r \in 1..Len(kept) |-> IF IsSpace(s[kept[r]]) THEN " " ELSE s[kept[r]]]

\* grade_to_age_bounds counting grades from 0
grade_to_age_bounds_from_zero(g) ==
    LET low == 6 + g
        high == low + 1
    IN  <<low, high>>

grade_to_age_bounds(g) ==
    LET low == 6 + (g - 1)
        high == low + 1
    IN  <<low, high>>

EN_DASH == "EN_DASH"
EM_DASH == "EM_DASH"

\* text.replace(en dash, "-").replace(em dash, "-")
ReplaceDashes(s) ==
    [k \in 1..Len(s) |-> IF s[k] \in {EN_DASH, EM_DASH} THEN "-" ELSE s[k]]

CTX_RADIUS == 80
KEY_CTX_LEN == 120

\* the closure ctx(i0, i1) of extract_age_evidence, over the text t
ctx(t, i0, i1) ==
    LET lo == IF i0 - CTX_RADIUS > 0 THEN i0 - CTX_RADIUS ELSE 0
        hi == IF i1 + CTX_RADIUS < Len(t) THEN i1 + CTX_RADIUS ELSE Len(t)
    IN  _clean(Slice(t, lo, hi))

-------------------------------------------------------------------------------------------------------------------------------------------
(* The regular expressions of extract_age_evidence.  A pattern is matched  *)
(* left to right by stages; a stage takes the 0-based offset reached so    *)
(* far, or -1 when the attempt has already failed, and gives the offset    *)
(* after its part of the pattern, or -1.  None of the patterns can succeed *)
(* by backtracking into a shorter greedy match, so one pass decides.       *)

NoMatch == [ok |-> FALSE, end |-> -1]

\* a or, when that failed, b
OrElse(a, b) == IF a >= 0 THEN a ELSE b

\* a literal, ignoring case
Lit(t, i, lit) == IF i >= 0 /\ LitAtI(t, i, lit) THEN i + Len(lit) ELSE -1

\* the offset after the first literal of lits among the alternatives hits
FirstHit(i, lits, hits) ==
    IF hits = {} THEN -1
    ELSE i + Len(lits[CHOOSE k \in hits : \A m \in hits : k <= m])

\* (?:a|b|...) for the literals lits
Alt(t, i, lits) ==
    IF i < 0 THEN -1
    ELSE FirstHit(i, lits, {k \in 1..Len(lits) : LitAtI(t, i, lits[k])})

\* \s*
Sp0(t, i) == IF i < 0 THEN -1 ELSE SkipSpace(t, i)

\* j when it lies after i
After(i, j) == IF j > i THEN j ELSE -1

\* \s+
Sp1(t, i) == IF i < 0 THEN -1 ELSE After(i, SkipSpace(t, i))

\* (\d{1,2}), greedy
IntAt(t, i) ==
    IF i >= 0 /\ i < Len(t) /\ IsDigit(t[i + 1])
    THEN IF i + 1 < Len(t) /\ IsDigit(t[i + 2])
         THEN [ok |-> TRUE, end |-> i + 2,
               val |-> 10 * DigitVal(t[i + 1]) + DigitVal(t[i + 2])]
         ELSE [ok |-> TRUE, end |-> i + 1, val |-> DigitVal(t[i + 1])]
    ELSE NoMatch

\* the end of the run of digits that starts at offset i
RECURSIVE SkipDigits(_, _)
SkipDigits(t, i) ==
    IF i < Len(t) /\ IsDigit(t[i + 1]) THEN SkipDigits(t, i + 1) ELSE i

\* the digits t[i:j] read as a fraction, in units of 1/Scale (digits past
\* FracDigits are dropped)
RECURSIVE FracVal(_, _, _, _)
FracVal(t, i, j, unit) ==
    IF i >= j \/ unit = 0 THEN 0
    ELSE DigitVal(t[i + 1]) * unit + FracVal(t, i + 1, j, unit \div 10)

\* (?:\.\d+)? after the integer part m, whose digits would end at e; float()
\* of the whole, in units of 1/Scale
WithFraction(t, m, e) ==
    IF LitAt(t, m.end, <<".">>) /\ e > m.end + 1
    THEN [ok |-> TRUE, end |-> e,
          val |-> m.val * Scale + FracVal(t, m.end + 1, e, Scale \div 10)]
    ELSE [ok |-> TRUE, end |-> m.end, val |-> m.val * Scale]

FractionAfter(t, m) ==
    IF m.ok THEN WithFraction(t, m, SkipDigits(t, m.end + 1)) ELSE NoMatch

\* (\d{1,2}(?:\.\d+)?)
DecimalAt(t, i) == FractionAfter(t, IntAt(t, i))

L_mean == Chars("mean")
L_average == Chars("average")
L_median == Chars("median")
L_age == Chars("age")
L_at == Chars("at")
L_baseline == Chars("baseline")
L_of == Chars("of")
L_was == Chars("was")
L_year == Chars("year")
L_years == Chars("years")
L_old == Chars("old")
L_yo == Chars("y.o.")
L_aged == Chars("aged")
L_between == Chars("between")
L_to == Chars("to")
L_and == Chars("and")
L_grade == Chars("grade")

\* s? after "year"
OptS(t, i) == IF i >= 0 /\ LitAtI(t, i, <<"s">>) THEN i + 1 ELSE i

\* (?:\s+at\s+baseline)?
OptAtBaseline(t, i) ==
    OrElse(Lit(t, Sp1(t, Lit(t, Sp1(t, i), L_at)), L_baseline), i)

\* (?:of|was|=|:)?
OptConnector(t, i) == OrElse(Alt(t, i, <<L_of, L_was, <<"=">>, <<":">> >>), i)

\* (?:years?|y\.o\.)?
OptUnit(t, i) == OrElse(OrElse(OptS(t, Lit(t, i, L_year)), Lit(t, i, L_yo)), i)

\* the match that ends at offset e, or no match when e is -1
EndingAt(m, e) == IF m.ok /\ e >= 0 THEN [m EXCEPT !.end = e] ELSE NoMatch

\* \s*(?:years?|y\.o\.)? after the number m
WithOptUnit(t, m) == IF m.ok THEN EndingAt(m, OptUnit(t, Sp0(t, m.end))) ELSE NoMatch

\* (?:HEAD)\s+age(?:\s+at\s+baseline)?\s*(?:of|was|=|:)?\s*(\d{1,2}(?:\.\d+)?)\s*(?:years?|y\.o\.)?
\* with HEAD one of heads
AgeStatAt(t, i, heads) ==
    WithOptUnit(t,
        DecimalAt(t,
            Sp0(t, OptConnector(t,
                Sp0(t, OptAtBaseline(t,
                    Lit(t, Sp1(t, Alt(t, i, heads)), L_age)))))))

MeanAt(t, i) == AgeStatAt(t, i, <<L_mean, L_average>>)

MedianAt(t, i) == AgeStatAt(t, i, <<L_median>>)

\* \s*SEP\s*(\d{1,2}) after the number m, SEP one of seps
SepInt(t, m, seps) ==
    IF m.ok THEN IntAt(t, Sp0(t, Alt(t, Sp0(t, m.end), seps))) ELSE NoMatch

\* the match of a range from its two numbers
RangeOf(m1, m2) ==
    IF m2.ok THEN [ok |-> TRUE, end |-> m2.end, lo |-> m1.val, hi |-> m2.val]
    ELSE NoMatch

\* (\d{1,2})\s*SEP\s*(\d{1,2}) from its first number m1
RangeFrom(t, m1, seps) == RangeOf(m1, SepInt(t, m1, seps))

\* aged\s+(\d{1,2})\s*-\s*(\d{1,2})
AgedRangeAt(t, i) ==
    RangeFrom(t, IntAt(t, Sp1(t, Lit(t, i, L_aged))), << <<"-">> >>)

\* (?:between\s+)?
OptBetween(t, i) == OrElse(Sp1(t, Lit(t, i, L_between)), i)

\* \s*(?:years|y\.o\.) after the range m
WithUnit(t, m) ==
    IF m.ok THEN EndingAt(m, Alt(t, Sp0(t, m.end), <<L_years, L_yo>>)) ELSE NoMatch

\* (?:between\s+)?(\d{1,2})\s*(?:to|and|-)\s*(\d{1,2})\s*(?:years|y\.o\.)
ProseRangeAt(t, i) ==
    WithUnit(t, RangeFrom(t, IntAt(t, OptBetween(t, i)), <<L_to, L_and, <<"-">> >>))

\* (?:years?\s*old|y\.o\.)
YearsOld(t, i) ==
    OrElse(Lit(t, Sp0(t, OptS(t, Lit(t, i, L_year))), L_old), Lit(t, i, L_yo))

\* \s*(?:years?\s*old|y\.o\.) after the number m
WithYearsOld(t, m) ==
    IF m.ok THEN EndingAt(m, YearsOld(t, Sp0(t, m.end))) ELSE NoMatch

\* (\d{1,2})\s*(?:years?\s*old|y\.o\.)
SingleAt(t, i) == WithYearsOld(t, IntAt(t, i))

\* the match of the grade pattern from its number m1 and optional number m2
GradeOf(m1, m2) ==
    IF m2.ok THEN [ok |-> TRUE, end |-> m2.end, g1 |-> m1.val, g2 |-> Some(m2.val)]
    ELSE [ok |-> TRUE, end |-> m1.end, g1 |-> m1.val, g2 |-> None]

\* (?:\s*-\s*(\d{1,2}))? after the grade m1
WithOptGrade(t, m1) ==
    IF m1.ok THEN GradeOf(m1, SepInt(t, m1, << <<"-">> >>)) ELSE NoMatch

\* grade\s+(\d{1,2})(?:\s*-\s*(\d{1,2}))?
GradeAt(t, i) == WithOptGrade(t, IntAt(t, Sp1(t, Lit(t, i, L_grade))))

\* the starts, in order, of the non-overlapping matches re.finditer yields:
\* the leftmost start at or after pos, then on from the end of that match
RECURSIVE Leftmost(_, _, _)
Leftmost(starts, all, pos) ==
    IF \E i \in starts : i >= pos
    THEN LET i == CHOOSE i \in starts : i >= pos /\ \A k \in starts : k >= pos => i <= k
         IN  <<i>> \o Leftmost(starts, all, all[i].end)
    ELSE <<>>

\* the attempt at offset i of the pattern of the named family
MatchAt(pat, t, i) ==
    CASE pat = "mean" -> MeanAt(t, i)
      [] pat = "median" -> MedianAt(t, i)
      [] pat = "aged" -> AgedRangeAt(t, i)
      [] pat = "prose" -> ProseRangeAt(t, i)
      [] pat = "single" -> SingleAt(t, i)
      [] pat = "grade" -> GradeAt(t, i)

\* the matches [start, m] at the offsets order
MatchesAt(all, order) ==
    [r \in 1..Len(order) |-> [start |-> order[r], m |-> all[order[r]]]]

\* the matches re.finditer yields, given the attempt all[i] at every offset i
NonOverlapping(all) ==
    MatchesAt(all, Leftmost({i \in DOMAIN all : all[i].ok}, all, 0))

\* re.finditer(pattern, t) for the pattern pat
Finditer(t, pat) == NonOverlapping([i \in 0..(Len(t) - 1) |-> MatchAt(pat, t, i)])

\* AddEvidence with a key that leaves the context out
AddEvidence_key_without_context(acc, kind, value, low, high, c) ==
    LET key == <<kind, value, low, high>>
    IN  IF key \in acc.seen THEN acc
        ELSE [seen |-> acc.seen \cup {key},
              evid |-> Append(acc.evid, AgeEvidence(kind, value, low, high, c))]

\* "if key not in seen: seen.add(key); evid.append(AgeEvidence(...))"
AddEvidence(acc, kind, value, low, high, c) ==
    LET key == <<kind, value, low, high, Prefix(c, KEY_CTX_LEN)>>
    IN  IF key \in acc.seen THEN acc
        ELSE [seen |-> acc.seen \cup {key},
              evid |-> Append(acc.evid, AgeEvidence(kind, value, low, high, c))]

\* the loop over the matches of a value pattern (mean, median, single)
RECURSIVE AddValues(_, _, _, _, _)
AddValues(acc, t, kind, ms, unit) ==
    IF ms = <<>> THEN acc
    ELSE AddValues(
             AddEvidence(acc, kind, Some(Head(ms).m.val * unit), None, None,
                         ctx(t, Head(ms).start, Head(ms).m.end)),
             t, kind, Tail(ms), unit)

\* the loop over the matches of a range pattern: float(lo), float(hi)
RECURSIVE AddRanges(_, _, _)
AddRanges(acc, t, ms) ==
    IF ms = <<>> THEN acc
    ELSE AddRanges(
             AddEvidence(acc, "range", None, Some(Head(ms).m.lo * Scale),
                         Some(Head(ms).m.hi * Scale),
                         ctx(t, Head(ms).start, Head(ms).m.end)),
             t, Tail(ms))

Min(a, b) == IF a <= b THEN a ELSE b
Max(a, b) == IF a >= b THEN a ELSE b

\* one match of the grade pattern: the band of its grade or grades
GradeBand(m) ==
    LET g1 == m.g1
        g2 == IF m.g2 # None THEN Val(m.g2) ELSE g1
        b1 == grade_to_age_bounds(g1)
        b2 == grade_to_age_bounds(g2)
    IN  [lo |-> Min(b1[1], b2[1]), hi |-> Max(b1[2], b2[2])]

\* the loop over the matches of the grade pattern
RECURSIVE AddGrades(_, _, _)
AddGrades(acc, t, ms) ==
    IF ms = <<>> THEN acc
    ELSE AddGrades(
             AddEvidence(acc, "grade", None, Some(GradeBand(Head(ms).m).lo * Scale),
                         Some(GradeBand(Head(ms).m).hi * Scale),
                         ctx(t, Head(ms).start, Head(ms).m.end)),
             t, Tail(ms))

extract_age_evidence(txt) ==
    IF txt = <<>> THEN <<>>
    ELSE LET t == ReplaceDashes(txt)
             a0 == [seen |-> {}, evid |-> <<>>]
             a1 == AddValues(a0, t, "mean", Finditer(t, "mean"), 1)
             a2 == AddValues(a1, t, "median", Finditer(t, "median"), 1)
             a3 == AddRanges(a2, t, Finditer(t, "aged"))
             a4 == AddRanges(a3, t, Finditer(t, "prose"))
             a5 == AddValues(a4, t, "single", Finditer(t, "single"), Scale)
             a6 == AddGrades(a5, t, Finditer(t, "grade"))
         IN  a6.evid

---------------------------------------------------------------------------
(* find_age.py: the eligibility decision *)

_in_window(v) == AGE_MIN * Scale <= v /\ v <= AGE_MAX * Scale

_overlaps_window(lo, hi) == ~(hi < AGE_MIN * Scale \/ lo > AGE_MAX * Scale)

AgeDecision(covidence_num, decision, reasons, evidence, source_url) ==
    [covidence_num |-> covidence_num, decision |-> decision, reasons |-> reasons,
     evidence |-> evidence, source_url |-> source_url]

baseline_flag(ev) ==
    \E k \in 1..Len(ev) : Contains(Lower(ev[k].context), L_baseline)

mean_in(ev) ==
    \E k \in 1..Len(ev) :
        ev[k].kind = "mean" /\ ev[k].value # None /\ _in_window(Val(ev[k].value))

mean_out(ev) ==
    \E k \in 1..Len(ev) :
        ev[k].kind = "mean" /\ ev[k].value # None /\ ~_in_window(Val(ev[k].value))

other_in(ev) ==
    \E k \in 1..Len(ev) :
        \/ /\ ev[k].kind \in {"range", "grade"}
           /\ ev[k].low # None /\ ev[k].high # None
           /\ _overlaps_window(Val(ev[k].low), Val(ev[k].high))
        \/ /\ ev[k].kind \in {"single", "median"}
           /\ ev[k].value # None /\ _in_window(Val(ev[k].value))

other_out(ev) ==
    \E k \in 1..Len(ev) :
        \/ /\ ev[k].kind \in {"range", "grade"}
           /\ ev[k].low # None /\ ev[k].high # None
           /\ ~_overlaps_window(Val(ev[k].low), Val(ev[k].high))
        \/ /\ ev[k].kind \in {"single", "median"}
           /\ ev[k].value # None /\ ~_in_window(Val(ev[k].value))

\* decide_age with the out-of-window rule tried before the in-window rule
decide_age_out_first(ev, covidence_num, source_url) ==
    IF ev = <<>> THEN
        AgeDecision(covidence_num, "UnknownAge", <<"No age evidence found">>, <<>>, source_url)
    ELSE IF baseline_flag(ev) /\ ~mean_in(ev) THEN
        AgeDecision(covidence_num, "Maybe", <<"baseline only">>, ev, source_url)
    ELSE IF mean_in(ev) THEN
        IF mean_out(ev) \/ other_out(ev)
        THEN AgeDecision(covidence_num, "Maybe", <<"mixed">>, ev, source_url)
        ELSE AgeDecision(covidence_num, "Yes", <<"in-range mean">>, ev, source_url)
    ELSE IF other_out(ev) THEN
        AgeDecision(covidence_num, "No", <<"outside">>, ev, source_url)
    ELSE IF other_in(ev) THEN
        AgeDecision(covidence_num, "Maybe", <<"in range, no mean">>, ev, source_url)
    ELSE
        AgeDecision(covidence_num, "UnknownAge", <<"not determinable">>, ev, source_url)

\* decide_age with the baseline rule firing on baseline_flag alone
decide_age_baseline_first(ev, covidence_num, source_url) ==
    IF ev = <<>> THEN
        AgeDecision(covidence_num, "UnknownAge", <<"No age evidence found">>, <<>>, source_url)
    ELSE IF baseline_flag(ev) THEN
        AgeDecision(covidence_num, "Maybe", <<"baseline only">>, ev, source_url)
    ELSE IF mean_in(ev) THEN
        IF mean_out(ev) \/ other_out(ev)
        THEN AgeDecision(covidence_num, "Maybe", <<"mixed">>, ev, source_url)
        ELSE AgeDecision(covidence_num, "Yes", <<"in-range mean">>, ev, source_url)
    ELSE IF other_in(ev) THEN
        AgeDecision(covidence_num, "Maybe", <<"in range, no mean">>, ev, source_url)
    ELSE IF other_out(ev) THEN
        AgeDecision(covidence_num, "No", <<"outside">>, ev, source_url)
    ELSE
        AgeDecision(covidence_num, "UnknownAge", <<"not determinable">>, ev, source_url)

decide_age(ev, covidence_num, source_url) ==
    IF ev = <<>> THEN
        AgeDecision(covidence_num, "UnknownAge",
                    <<"No age evidence found; consider checking supplements.">>,
                    <<>>, source_url)
    ELSE IF baseline_flag(ev) /\ ~mean_in(ev) THEN
        AgeDecision(covidence_num, "Maybe",
                    <<"Age described at baseline only; no in-range mean reported.">>,
                    ev, source_url)
    ELSE IF mean_in(ev) THEN
        IF mean_out(ev) \/ other_out(ev) THEN
            AgeDecision(covidence_num, "Maybe",
                        <<"In-range mean detected, but mixed cohorts also out-of-range.">>,
                        ev, source_url)
        ELSE
            AgeDecision(covidence_num, "Yes",
                        <<"In-range mean age detected (2-17).">>, ev, source_url)
    ELSE IF other_in(ev) THEN
        AgeDecision(covidence_num, "Maybe",
                    <<"Age appears in range, but no mean reported.">>, ev, source_url)
    ELSE IF other_out(ev) THEN
        AgeDecision(covidence_num, "No",
                    <<"All detected age evidence outside 2-17 (<2 or >=18).">>,
                    ev, source_url)
    ELSE
        AgeDecision(covidence_num, "UnknownAge",
                    <<"Age not determinable; consider checking supplements.">>,
                    ev, source_url)

---------------------------------------------------------------------------
(* The decision engine on its own: decide_age applied to evidence lists   *)

MaxEvidence == 2

\* the main loops at rest: no CSV is being processed
MainIdle ==
    /\ df = <<>> /\ args_n = 0 /\ serpapi_key = None /\ row_i = 1
    /\ tried = 0 /\ processed = 0 /\ rows = <<>> /\ log = <<>>
    /\ found_doi = <<>> /\ found_url = <<>> /\ source = ""

NoDecision == AgeDecision(<<>>, "", <<>>, <<>>, <<>>)

\* ages on and around the bounds of the window, in years and half years
TestAges ==
    {(AGE_MIN - 1) * Scale, AGE_MIN * Scale, 10 * Scale, AGE_MAX * Scale,
     AGE_MAX * Scale + Scale \div 2, (AGE_MAX + 1) * Scale}

\* bands below, touching, overlapping and above the window
TestBands ==
    {<<0, (AGE_MIN - 1) * Scale>>, <<0, AGE_MIN * Scale>>,
     <<AGE_MAX * Scale, 25 * Scale>>, <<(AGE_MAX + 1) * Scale, 25 * Scale>>}

TestContexts == {Chars("n = 40"), Chars("age at Baseline")}

TestEvidence ==
    {AgeEvidence(k, Some(v), None, None, c) :
        k \in {"mean", "median", "single"}, v \in TestAges, c \in TestContexts}
    \cup
    {AgeEvidence(k, None, Some(b[1]), Some(b[2]), c) :
        k \in {"range", "grade"}, b \in TestBands, c \in TestContexts}

SeqsUpTo(S, m) == UNION {[1..k -> S] : k \in 0..m}

InitDecide ==
    /\ pc = "decide"
    /\ evid \in SeqsUpTo(TestEvidence, MaxEvidence)
    /\ text = <<>>
    /\ dec = NoDecision
    /\ MainIdle

DecideAge ==
    /\ pc = "decide"
    /\ dec' = decide_age(evid, Chars("293"), Chars("http://a/p"))
    /\ pc' = "decided"
    /\ UNCHANGED <<mainVars, text, evid>>

NextDecide == DecideAge

SpecDecide == InitDecide /\ [][NextDecide]_vars

---------------------------------------------------------------------------
(* Properties of the decision engine (SpecDecide) *)

\* the window and the flags as the rules state them: in-window is
\* 2 <= value <= 17, a band overlaps iff NOT (high < 2 OR low > 17)
RuleInWindow(v) == 2 * Scale <= v /\ v <= 17 * Scale

RuleOverlaps(lo, hi) == ~(hi < 2 * Scale \/ lo > 17 * Scale)

IsValueKind(e) == e.kind \in {"mean", "median", "single"}

RuleBaseline(ev) ==
    \E k \in 1..Len(ev) : Contains(Lower(ev[k].context), Chars("baseline"))

RuleMeanIn(ev) ==
    \E k \in 1..Len(ev) : ev[k].kind = "mean" /\ RuleInWindow(ev[k].value[1])

RuleMeanOut(ev) ==
    \E k \in 1..Len(ev) : ev[k].kind = "mean" /\ ~RuleInWindow(ev[k].value[1])

RuleOtherIn(ev) ==
    \E k \in 1..Len(ev) :
        \/ ev[k].kind \in {"range", "grade"} /\ RuleOverlaps(ev[k].low[1], ev[k].high[1])
        \/ ev[k].kind \in {"single", "median"} /\ RuleInWindow(ev[k].value[1])

RuleOtherOut(ev) ==
    \E k \in 1..Len(ev) :
        \/ ev[k].kind \in {"range", "grade"} /\ ~RuleOverlaps(ev[k].low[1], ev[k].high[1])
        \/ ev[k].kind \in {"single", "median"} /\ ~RuleInWindow(ev[k].value[1])

\* the six rules in their priority order: <<condition, verdict>>
RuleTable(ev) ==
    << <<ev = <<>>, "UnknownAge">>,
       <<RuleBaseline(ev) /\ ~RuleMeanIn(ev), "Maybe">>,
       <<RuleMeanIn(ev),
         IF RuleMeanOut(ev) \/ RuleOtherOut(ev) THEN "Maybe" ELSE "Yes">>,
       <<RuleOtherIn(ev), "Maybe">>,
       <<RuleOtherOut(ev), "No">>,
       <<TRUE, "UnknownAge">> >>

\* the verdict of the first rule of the table whose condition holds
FirstMatch(table) ==
    table[CHOOSE r \in 1..Len(table) :
              table[r][1] /\ \A q \in 1..(r - 1) : ~table[q][1]][2]

BaselineMeanOnly ==
    /\ Len(evid) = 1
    /\ evid[1].kind = "mean"
    /\ RuleInWindow(evid[1].value[1])
    /\ Contains(Lower(evid[1].context), Chars("baseline"))

\* C2 as stated: evidence that is a single in-window mean (e.g. 10) with
\* "baseline" in its context gets the verdict Maybe.
C2_AsStated == pc = "decided" /\ BaselineMeanOnly => dec.decision = "Maybe"

\* C2 (amended): evidence that is a single in-window mean (e.g. 10) with
\* "baseline" in its context gets the verdict Yes: the baseline rule needs
\* mean_in to be false, so it does not fire and the in-window-mean rule decides.
C2_BaselineMeanIsYes == pc = "decided" /\ BaselineMeanOnly => dec.decision = "Yes"

\* the decision for [mean = 10] with a baseline context
C2_Witness ==
    /\ pc = "decided"
    /\ BaselineMeanOnly
    /\ evid[1].value = Some(10 * Scale)
    /\ dec.decision = "Yes"

\* the item e is outside the eligibility window: its value is not in [2,17],
\* or its band does not overlap [2,17]
OutsideWindow(e) ==
    IF IsValueKind(e) THEN ~RuleInWindow(e.value[1])
    ELSE ~RuleOverlaps(e.low[1], e.high[1])

\* evid is not empty, no context has "baseline", every item is outside
AllOutside ==
    /\ evid # <<>>
    /\ ~RuleBaseline(evid)
    /\ \A k \in 1..Len(evid) : OutsideWindow(evid[k])

\* C11: for every non-empty evidence sequence without "baseline" in a
\* context and with every item outside the eligibility window, decide_age
\* returns No.
C11_AsStated ==
    (pc = "decided" /\ AllOutside) => dec.decision = "No"

\* a decision on such a sequence that has an item other than a mean
C11_Witness ==
    /\ pc = "decided" /\ AllOutside
    /\ \E k \in 1..Len(evid) : evid[k].kind # "mean"
    /\ dec.decision = "No"


---------------------------------------------------------------------------
(* The evidence miner on its own: extract_age_evidence applied to texts   *)

\* length of the filler that separates two phrases of a test document
PadLen == 90

Filler == [k \in 1..PadLen |-> "x"]

P_mean85 == Chars("mean age of 8.5 years")

TestPhrases ==
    {<<>>, P_mean85, Chars("Average age at baseline was 12 years"),
     Chars("median age: 9 y.o."), Chars("aged 12") \o <<EN_DASH>> \o Chars("16"),
     Chars("between 3 and 10 years"), Chars("20 years old"),
     Chars("grade 1"), Chars("Grade 12"), Chars("grade 3-5")}

\* a document: two phrases with filler or white space around them
TestTexts ==
    {a \o p \o b \o q \o c :
        a \in {<<>>, Filler}, p \in TestPhrases,
        b \in {<<" ">>, <<"\n", " ", "\n">>, Filler}, q \in TestPhrases,
        c \in {<<>>, Filler}}

InitMiner ==
    /\ pc = "extract"
    /\ text \in TestTexts
    /\ evid = <<>>
    /\ dec = NoDecision
    /\ MainIdle

ExtractAgeEvidence ==
    /\ pc = "extract"
    /\ evid' = extract_age_evidence(text)
    /\ pc' = "extracted"
    /\ UNCHANGED <<mainVars, text, dec>>

NextMiner == ExtractAgeEvidence

SpecMiner == InitMiner /\ [][NextMiner]_vars

---------------------------------------------------------------------------
(* Properties of the evidence miner (SpecMiner) *)

\* the offsets at which the phrase "mean age of 8.5 years" occurs in t
PhraseStarts(t) == {i \in 0..Len(t) : LitAt(t, i, P_mean85)}

\* the number of evidence items of kind mean with value 8.5
Mean85Count(ev) ==
    Cardinality({k \in 1..Len(ev) :
                    ev[k].kind = "mean" /\ ev[k].value = Some(8 * Scale + Scale \div 2)})

\* the first 120 characters of the context of the occurrence at offset i
PhraseKey(t, i) == Prefix(ctx(ReplaceDashes(t), i, i + Len(P_mean85)), 120)

\* C3 as stated: a text in which "mean age of 8.5 years" occurs exactly twice,
\* whatever surrounds the occurrences, yields exactly one mean item of value 8.5.
C3_AsStated ==
    pc = "extracted" /\ Cardinality(PhraseStarts(text)) = 2 =>
        Mean85Count(evid) = 1

\* C3 (amended): a text in which "mean age of 8.5 years" occurs exactly twice
\* and that mentions no other mean or average age yields exactly one mean item
\* of value 8.5 when the two occurrences have the same first 120 characters of
\* context (the white-space-normalised window of 80 characters either side),
\* and exactly two such items otherwise.
C3_OnePerContext ==
    pc = "extracted" /\ Cardinality(PhraseStarts(text)) = 2
                     /\ Len(Finditer(ReplaceDashes(text), "mean")) = 2 =>
        LET i1 == CHOOSE i \in PhraseStarts(text) : \A k \in PhraseStarts(text) : i <= k
            i2 == CHOOSE i \in PhraseStarts(text) : \A k \in PhraseStarts(text) : i >= k
        IN  Mean85Count(evid) = IF PhraseKey(text, i1) = PhraseKey(text, i2) THEN 1 ELSE 2

\* the phrase twice, far enough apart for the contexts to differ: two items
C3_Witness ==
    /\ pc = "extracted"
    /\ Cardinality(PhraseStarts(text)) = 2
    /\ Len(Finditer(ReplaceDashes(text), "mean")) = 2
    /\ \E i, k \in PhraseStarts(text) : PhraseKey(text, i) # PhraseKey(text, k)
    /\ Mean85Count(evid) = 2

\* the matches of the grade pattern in the text whose matched text is lit
GradeMatches(lit) ==
    LET t == ReplaceDashes(text)
        ms == Finditer(t, "grade")
    IN  {ms[r] : r \in {q \in 1..Len(ms) :
                          Lower(Slice(t, ms[q].start, ms[q].m.end)) = lit}}

\* a grade item of band [lo, hi] was retained for the match m
HasGradeItem(m, lo, hi) ==
    \E k \in 1..Len(evid) :
        /\ evid[k].kind = "grade"
        /\ evid[k].low = Some(lo * Scale) /\ evid[k].high = Some(hi * Scale)
        /\ Prefix(evid[k].context, 120)
             = Prefix(ctx(ReplaceDashes(text), m.start, m.m.end), 120)

GradeYields(lit, lo, hi) == \A m \in GradeMatches(lit) : HasGradeItem(m, lo, hi)

\* C4 as stated: "grade 1" yields band [6,7], "grade 12" yields band [17,18]
\* and the grade range "grade 3-5" yields band [8,10].
C4_AsStated ==
    pc = "extracted" =>
        /\ GradeYields(Chars("grade 1"), 6, 7)
        /\ GradeYields(Chars("grade 12"), 17, 18)
        /\ GradeYields(Chars("grade 3-5"), 8, 10)

\* C4 (amended): "grade 1" yields band [6,7], "grade 12" yields band [17,18]
\* and the grade range "grade 3-5" yields band [8,11]: grade 5 maps to [10,11],
\* and the band of a grade range runs from the lower low to the higher high.
C4_GradeBands ==
    pc = "extracted" =>
        /\ GradeYields(Chars("grade 1"), 6, 7)
        /\ GradeYields(Chars("grade 12"), 17, 18)
        /\ GradeYields(Chars("grade 3-5"), 8, 11)

\* a text with a match of each of the three forms, and the range's band [8,11]
C4_Witness ==
    /\ pc = "extracted"
    /\ GradeMatches(Chars("grade 3-5")) # {}
    /\ GradeMatches(Chars("grade 1")) # {} \/ GradeMatches(Chars("grade 12")) # {}
    /\ \E m \in GradeMatches(Chars("grade 3-5")) : HasGradeItem(m, 8, 11)

\* C10: every item extract_age_evidence returns has exactly one of value or
\* (low and high): value alone iff its kind is mean, median or single, low and
\* high alone iff its kind is range or grade.
C10_ValueXorBand ==
    pc = "extracted" =>
        \A k \in 1..Len(evid) :
            /\ evid[k].kind \in {"mean", "median", "single", "range", "grade"}
            /\ evid[k].kind \in {"mean", "median", "single"} <=>
                   (evid[k].value # None /\ evid[k].low = None /\ evid[k].high = None)
            /\ evid[k].kind \in {"range", "grade"} <=>
                   (evid[k].value = None /\ evid[k].low # None /\ evid[k].high # None)

\* an extraction that returned an item with a value and an item with a band
C10_Witness ==
    /\ pc = "extracted"
    /\ \E k \in 1..Len(evid) : evid[k].kind \in {"mean", "median", "single"}
    /\ \E k \in 1..Len(evid) : evid[k].kind \in {"range", "grade"}

---------------------------------------------------------------------------
(* find_links.py: identifiers, titles and authors *)

\* a CSV cell that pandas read as missing (float NaN)
NaN == <<"NaN">>

\* str(x) of a cell
Str(x) == IF x = NaN THEN Chars("nan") ELSE x

MinOf(S) == CHOOSE i \in S : \A k \in S : i <= k
MaxOf(S) == CHOOSE i \in S : \A k \in S : i >= k

\* s from its first to its last position of ns, the positions without white space
Between(s, ns) == IF ns = {} THEN <<>> ELSE SubSeq(s, MinOf(ns), MaxOf(ns))

\* s.strip()
Strip(s) == Between(s, {k \in 1..Len(s) : ~IsSpace(s[k])})

\* s[i:]
From(s, i) == SubSeq(s, i + 1, Len(s))

\* s before the first of the offsets hits, or all of s
Before(s, hits) == IF hits = {} THEN s ELSE Prefix(s, MinOf(hits))

\* s.split(sep)[0]
SplitHead(s, sep) == Before(s, {i \in 0..Len(s) : LitAt(s, i, sep)})

\* a or b of Python, for strings
Or(a, b) == IF a # <<>> THEN a ELSE b

is_missing(x) ==
    \/ x = NaN
    \/ Strip(Str(x)) = <<>>
    \/ Lower(Strip(Str(x))) \in {Chars("nan"), Chars("none")}

\* s without its match of the prefix pattern that ends at offset e, if any
Without(s, e) == IF e >= 0 THEN From(s, e) ELSE s

\* (dx\.)?
OptDx(s, i) == OrElse(Lit(s, i, Chars("dx.")), i)

\* re.sub(r"^(https?://(dx\.)?doi\.org/)", "", s, flags=re.I)
StripResolver(s) ==
    Without(s, Lit(s, OptDx(s, Lit(s, OptS(s, Lit(s, 0, Chars("http"))), Chars("://"))),
                   Chars("doi.org/")))

\* re.sub(r"^(doi:)\s*", "", s, flags=re.I)
StripDoiPrefix(s) == Without(s, Sp0(s, Lit(s, 0, Chars("doi:"))))

\* \d{4,9} from offset i, whose run of digits ends at j
Registrant(i, j) == IF i >= 0 /\ j - i >= 4 /\ j - i <= 9 THEN j ELSE -1

\* the end of the run of [^\s"<>] that starts at offset i
RECURSIVE SkipSuffix(_, _)
SkipSuffix(s, i) ==
    IF i < Len(s) /\ ~IsSpace(s[i + 1]) /\ s[i + 1] \notin {"\"", "<", ">"}
    THEN SkipSuffix(s, i + 1) ELSE i

\* [^\s"<>]+
Suffix(s, i) == IF i < 0 THEN -1 ELSE After(i, SkipSuffix(s, i))

\* \d{4,9} after "10." ended at offset i
RegistrantAt(s, i) == IF i < 0 THEN -1 ELSE Registrant(i, SkipDigits(s, i))

\* (10\.\d{4,9}/[^\s"<>]+) at offset i: the offset after the match, or -1
DoiEnd(s, i) == Suffix(s, Lit(s, RegistrantAt(s, Lit(s, i, Chars("10."))), <<"/">>))

\* m.group(1) of the match found first among the starts hits, or None
FirstDoi(s, hits) ==
    IF hits = {} THEN None ELSE Some(Slice(s, MinOf(hits), DoiEnd(s, MinOf(hits))))

\* re.search(r"(10\.\d{4,9}/[^\s\"<>]+)", s, flags=re.I)
DoiSearch(s) == FirstDoi(s, {i \in 0..Len(s) : DoiEnd(s, i) >= 0})

normalize_doi(x) ==
    IF is_missing(x) THEN None
    ELSE DoiSearch(StripDoiPrefix(StripResolver(Strip(Str(x)))))

doi_to_url(doi) == IF doi # None THEN Some(Chars("https://doi.org/") \o Val(doi)) ELSE None

\* s or None
NoneIfEmpty(s) == IF s = <<>> THEN None ELSE Some(s)

first_author_from(authors) ==
    IF is_missing(authors) THEN None
    ELSE NoneIfEmpty(Strip(SplitHead(SplitHead(SplitHead(Str(authors), <<";">>),
                                               Chars(" and ")), <<",">>)))

\* the positions of s that re.sub(r"\s+", " ", s) keeps: the first of each run
KeptByCollapse(s, k) == ~IsSpace(s[k]) \/ k = 1 \/ ~IsSpace(s[k - 1])

\* the characters of s at the positions kept, white space as one blank
Collapsed(s, kept) ==
    [r \in 1..Len(kept) |-> IF IsSpace(s[kept[r]]) THEN " " ELSE s[kept[r]]]

\* re.sub(r"\s+", " ", s)
Collapse(s) ==
    Collapsed(s, SelectSeq([k \in 1..Len(s) |-> k], LAMBDA k : KeptByCollapse(s, k)))

normalize_title(title) == Collapse(Strip(title))

short_title(title) ==
    Strip(SplitHead(SplitHead(normalize_title(title), Chars(" - ")), <<":">>))

---------------------------------------------------------------------------
(* find_links.py: the search services.  A response of a service is a record
   whose kind says how the request ended: "exception" (requests raised),
   "status" (a status other than 200), "badjson" (a body that json() or the
   lookups in it reject) and "ok". *)

NOT_FOUND == Chars("NOT_FOUND")

\* the value of the Optional o, or d
OrVal(o, d) == IF o # None THEN Val(o) ELSE d

\* what a run does on the network and to the clock, in the order it does it;
\* rec is the number of the record at work
GetEvent(svc, q, out) == [op |-> "GET", svc |-> svc, q |-> q, out |-> out, rec |-> 0]
SleepEvent(ms) == [op |-> "sleep", svc |-> "", q |-> ms, out |-> <<>>, rec |-> 0]
Tag(events, k) == [j \in 1..Len(events) |-> [events[j] EXCEPT !.rec = k]]

polite_get(w) == IF w.kind \in {"exception", "status"} THEN None ELSE Some(w)

\* r.json().get("message", {}).get("items", []), then items[0] if items else None
TopItem(r) ==
    IF r = None THEN None
    ELSE IF Val(r).kind = "badjson" \/ Val(r).items = <<>> THEN None
    ELSE Some(Val(r).items[1])

\* crossref_top_item sleeps on each of its three ways out
TopReturned(params, it) ==
    [it |-> it, events |-> <<GetEvent("crossref", params, it), SleepEvent(300)>>]

crossref_top_item(params, w) == TopReturned(params, TopItem(polite_get(w)))

\* {"query.title": title} and, if first_author, "query.author"
Params(title, first_author) == [title |-> title, author |-> first_author]

\* it.get of an item that has no such method
ItemRaises(it) == it # None /\ ~Val(it).is_dict

\* it and it.get("DOI")
HasDoi(it) == it # None /\ Val(it).DOI # <<>>

\* (doi or "NOT_FOUND", url or "") with url = it.get("URL") or doi_to_url(doi)
Resolved(doi, url) ==
    [next |-> "return", doi |-> OrVal(doi, NOT_FOUND),
     url |-> Or(url, OrVal(doi_to_url(doi), <<>>))]

\* short and short.lower() != title.lower()
ShortDiffers(title, short) == short # <<>> /\ Lower(short) # Lower(title)

\* strategy 1 has a strategy after it when the short title differs
MoreStrategies(title, strategy) ==
    strategy = 1 /\ ShortDiffers(title, short_title(title))

robust_crossref_find_doi_no_return(title, it, strategy) ==
    IF ItemRaises(it) THEN [next |-> "raise", doi |-> <<>>, url |-> <<>>]
    ELSE IF MoreStrategies(title, strategy)
    THEN [next |-> "short", doi |-> <<>>, url |-> <<>>]
    ELSE IF HasDoi(it) THEN Resolved(normalize_doi(Val(it).DOI), Val(it).URL)
    ELSE [next |-> "return", doi |-> NOT_FOUND, url |-> <<>>]

\* what robust_crossref_find_doi does with the item `it` that the query of
\* its strategy 1 (title) or 2 (short title) returned, title normalized
robust_crossref_find_doi(title, it, strategy) ==
    IF ItemRaises(it) THEN [next |-> "raise", doi |-> <<>>, url |-> <<>>]
    ELSE IF HasDoi(it) THEN Resolved(normalize_doi(Val(it).DOI), Val(it).URL)
    ELSE IF MoreStrategies(title, strategy)
    THEN [next |-> "short", doi |-> <<>>, url |-> <<>>]
    ELSE [next |-> "return", doi |-> NOT_FOUND, url |-> <<>>]

\* f"{title} {author}" if author else title
ScholarQuery(title, author) ==
    IF author # None THEN title \o <<" ">> \o Val(author) ELSE title

\* the results whose link is not empty and holds the pattern of an identifier
WithDoi(results) ==
    {k \in 1..Len(results) : results[k].link # <<>> /\ DoiSearch(results[k].link) # None}

\* the return of the loop over results, for the first result of hits
FromResult(link) ==
    [doi |-> OrVal(normalize_doi(Val(DoiSearch(link))), NOT_FOUND), url |-> link]

\* the return of serpapi_scholar_link for the results of a response
FromResults(results, hits) ==
    IF hits # {} THEN FromResult(results[MinOf(hits)].link)
    ELSE IF results # <<>> THEN [doi |-> NOT_FOUND, url |-> results[1].link]
    ELSE [doi |-> NOT_FOUND, url |-> <<>>]

\* data.get("organic_results") or [], nothing when the request failed
ResultsOf(w) == IF w.kind = "ok" THEN w.results ELSE <<>>

ScholarReturn(w) ==
    IF w.kind # "ok" THEN [doi |-> NOT_FOUND, url |-> <<>>]
    ELSE FromResults(w.results, WithDoi(w.results))

\* the call and its return; serpapi_scholar_link does not sleep
ScholarReturned(q, results, ret) ==
    [doi |-> ret.doi, url |-> ret.url,
     events |-> <<GetEvent("serpapi", q, [results |-> results, doi |-> ret.doi, url |-> ret.url])>>]

serpapi_scholar_link(title, author, api_key, w) ==
    ScholarReturned([q |-> ScholarQuery(title, author), api_key |-> api_key],
                    ResultsOf(w), ScholarReturn(w))

---------------------------------------------------------------------------
(* find_links.py: main, one step for each stretch of its loop that ends at a
   call of a search service or at the end of the iteration.
   pc: "loop" at the head of the loop, "full" and "short" before the two
   queries of the index, "scholar" before the web search, "append" before
   the row is emitted, "done" after the loop, "aborted" when an exception
   left main. *)

MaxRows == 2

\* s.replace(c, "")
Remove(s, c) == SelectSeq(s, LAMBDA x : x # c)

\* the locals of main that depend on the row alone
CovId(row) == Remove(Strip(Str(row.cov)), "#")
TitleOf(row) == Strip(Str(row.title))
AuthorsOf(row) == Strip(Str(row.authors))
FirstAuthor(row) == first_author_from(AuthorsOf(row))

\* title, then short, as robust_crossref_find_doi computes them
QueryTitle(row, strategy) ==
    IF strategy = 1 THEN normalize_title(TitleOf(row))
    ELSE short_title(normalize_title(TitleOf(row)))

ScholarFallback_source_of_attempt(doi, url, src, s) ==
    IF s.doi # NOT_FOUND
    THEN [doi |-> s.doi, url |-> Or(s.url, Val(doi_to_url(Some(s.doi)))), source |-> "scholar"]
    ELSE [doi |-> doi, url |-> url, source |-> "scholar"]

\* main takes the return s of the web search only when it holds an identifier
ScholarFallback(doi, url, src, s) ==
    IF s.doi # NOT_FOUND
    THEN [doi |-> s.doi, url |-> Or(s.url, Val(doi_to_url(Some(s.doi)))), source |-> "scholar"]
    ELSE [doi |-> doi, url |-> url, source |-> src]

\* the row that main appends
OutRow(row, doi, url, src) ==
    [cov |-> CovId(row), title |-> TitleOf(row), authors |-> AuthorsOf(row),
     csv_doi |-> OrVal(normalize_doi(row.doi), <<>>),
     found_doi |-> Or(doi, NOT_FOUND), found_url |-> url, source |-> src]

ageVars == <<processed, text, evid, dec>>

\* source = "csv" and the found_doi and found_url of the row itself
Begun(doi_csv, url) ==
    /\ source' = "csv"
    /\ found_doi' = OrVal(doi_csv, <<>>)
    /\ found_url' = Or(url, OrVal(doi_to_url(doi_csv), <<>>))
    /\ pc' = IF doi_csv # None THEN "append" ELSE "full"
    /\ UNCHANGED <<df, args_n, serpapi_key, row_i, tried, rows, log, ageVars>>

LinksBegin ==
    /\ pc = "loop" /\ row_i <= Len(df) /\ tried < args_n
    /\ Begun(normalize_doi(df[row_i].doi), Strip(Str(df[row_i].url)))

\* the way on after robust_crossref_find_doi got r from a query
Returned(r) ==
    /\ pc' = CASE r.next = "raise" -> "aborted"
               [] r.next = "short" -> "short"
               [] OTHER -> IF r.doi = NOT_FOUND /\ serpapi_key # None
                           THEN "scholar" ELSE "append"
    /\ IF r.next = "return"
       THEN found_doi' = r.doi /\ found_url' = r.url /\ source' = "crossref"
       ELSE UNCHANGED <<found_doi, found_url, source>>
    /\ UNCHANGED <<df, args_n, serpapi_key, row_i, tried, rows, ageVars>>

Queried(strategy, c) ==
    /\ log' = log \o Tag(c.events, row_i)
    /\ Returned(robust_crossref_find_doi(QueryTitle(df[row_i], 1), c.it, strategy))

CrossrefItems ==
    {[is_dict |-> TRUE, DOI |-> Chars("10.5555/xy"), URL |-> Chars("http://dx.doi.org/10.5555/xy")],
     [is_dict |-> TRUE, DOI |-> Chars("10.5555/xy"), URL |-> <<>>],
     [is_dict |-> TRUE, DOI |-> Chars("10.55/x"), URL |-> Chars("https://x.org/55")],
     [is_dict |-> TRUE, DOI |-> <<>>, URL |-> Chars("https://x.org/0")],
     [is_dict |-> FALSE, DOI |-> <<>>, URL |-> <<>>]}

CrossrefResponses ==
    {[kind |-> k, items |-> <<>>] : k \in {"exception", "status", "badjson", "ok"}}
    \cup {[kind |-> "ok", items |-> <<it>>] : it \in CrossrefItems}

Crossref(strategy) ==
    \E w \in CrossrefResponses :
        Queried(strategy,
                crossref_top_item(Params(QueryTitle(df[row_i], strategy),
                                         FirstAuthor(df[row_i])), w))

CrossrefFull == pc = "full" /\ Crossref(1)

CrossrefShort == pc = "short" /\ Crossref(2)

Merged(f) ==
    /\ found_doi' = f.doi /\ found_url' = f.url /\ source' = f.source
    /\ pc' = "append"
    /\ UNCHANGED <<df, args_n, serpapi_key, row_i, tried, rows, ageVars>>

Searched(s) ==
    /\ log' = log \o Tag(s.events, row_i)
    /\ Merged(ScholarFallback(found_doi, found_url, source, s))

L_plain == [link |-> Chars("https://x.org/a")]
L_none == [link |-> <<>>]
L_doi == [link |-> Chars("https://x.org/10.7777/z")]

ScholarResponses ==
    {[kind |-> k, results |-> <<>>] : k \in {"exception", "status", "ok"}}
    \cup {[kind |-> "ok", results |-> r] :
              r \in {<<L_plain>>, <<L_none, L_plain>>, <<L_none, L_doi>>, <<L_plain, L_doi>>}}

Scholar ==
    /\ pc = "scholar"
    /\ \E w \in ScholarResponses :
           Searched(serpapi_scholar_link(TitleOf(df[row_i]), FirstAuthor(df[row_i]),
                                         Val(serpapi_key), w))

AppendRow ==
    /\ pc = "append"
    /\ rows' = Append(rows, OutRow(df[row_i], found_doi, found_url, source))
    /\ log' = log \o Tag(<<SleepEvent(200)>>, row_i)
    /\ tried' = tried + 1
    /\ row_i' = row_i + 1
    /\ pc' = "loop"
    /\ UNCHANGED <<df, args_n, serpapi_key, found_doi, found_url, source, ageVars>>

LinksExit ==
    /\ pc = "loop" /\ (row_i > Len(df) \/ tried >= args_n)
    /\ pc' = "done"
    /\ UNCHANGED <<mainVars, text, evid, dec>>

R_doi ==
    [cov |-> Chars("#1"), title |-> Chars("Sleep"), authors |-> Chars("Smith, J; Doe, K"),
     doi |-> Chars("https://doi.org/10.1234/ab"), url |-> Chars("https://x.org/1")]
R_subtitle ==
    [cov |-> Chars("#2"), title |-> Chars("Teen  sleep: a trial"),
     authors |-> Chars("Lee and Park"), doi |-> NaN, url |-> NaN]
R_plain ==
    [cov |-> Chars("#3"), title |-> Chars(" Naps"), authors |-> NaN,
     doi |-> Chars("n/a"), url |-> Chars("https://x.org/3")]

TestRecords == {R_doi, R_subtitle, R_plain}

\* the tables of up to MaxRows records, each record once
TestTables ==
    {d \in SeqsUpTo(TestRecords, MaxRows) :
        \A a, b \in 1..Len(d) : a # b => d[a] # d[b]}

InitLinks ==
    /\ pc = "loop"
    /\ df \in TestTables
    /\ args_n \in 1..MaxRows
    /\ serpapi_key \in {None, Some(Chars("key"))}
    /\ row_i = 1 /\ tried = 0 /\ rows = <<>> /\ log = <<>>
    /\ found_doi = <<>> /\ found_url = <<>> /\ source = ""
    /\ processed = 0 /\ text = <<>> /\ evid = <<>> /\ dec = NoDecision

NextLinks ==
    \/ LinksBegin
    \/ CrossrefFull
    \/ CrossrefShort
    \/ Scholar
    \/ AppendRow
    \/ LinksExit

SpecLinks == InitLinks /\ [][NextLinks]_vars

---------------------------------------------------------------------------
(* Claims on the identifier resolution of find_links.py (SpecLinks) *)

\* the positions in log of the calls made for record k
CallsFor(k) == {j \in 1..Len(log) : log[j].op = "GET" /\ log[j].rec = k}

\* the call e of the index returned an item with an identifier that normalizes
ReturnedId(e) ==
    /\ e.svc = "crossref" /\ e.out # None /\ Val(e.out).is_dict
    /\ normalize_doi(Val(e.out).DOI) # None

\* the record of the call at j has no identifier of its own that normalizes
OwnIdFails(j) == normalize_doi(df[log[j].rec].doi) = None

\* every call made for the record of the call at j before it went to the
\* index and returned no identifier
AfterFailures(j) ==
    \A i \in CallsFor(log[j].rec) :
        i < j => log[i].svc = "crossref" /\ ~ReturnedId(log[i])

\* the call at j is the full-title query when it is the first call for its
\* record, the short-title query when it is the second; the index gets no third
InChainOrder(j) ==
    LET before == {i \in CallsFor(log[j].rec) : i < j}
        row == df[log[j].rec]
    IN  IF log[j].svc = "crossref"
        THEN /\ Cardinality(before) <= 1
             /\ log[j].q.title = QueryTitle(row, Cardinality(before) + 1)
        ELSE /\ Cardinality(before) >= 1
             /\ ~\E i \in CallsFor(log[j].rec) : i > j

\* C5: the resolution chain is strictly ordered and stops at the first
\* success: no search service is called for a record whose own identifier
\* normalizes; a call for a record comes only after every earlier call for
\* it went to the index and returned no identifier, so the short-title
\* query follows a full-title query without identifier and the web search
\* follows index queries without identifier; the full-title query is the
\* first, the short-title query the second and the web search the last.
C5_ChainShortCircuits ==
    \A j \in 1..Len(log) :
        log[j].op = "GET" => OwnIdFails(j) /\ AfterFailures(j) /\ InChainOrder(j)

\* a finished run that emitted a row from the table's own identifier and
\* went through full-title query, short-title query and web search for
\* another record
C5_Witness ==
    /\ pc = "done"
    /\ \E k \in 1..Len(rows) : rows[k].source = "csv" /\ CallsFor(k) = {}
    /\ \E k \in 1..Len(rows) :
           /\ Cardinality(CallsFor(k)) = 3
           /\ \E j \in CallsFor(k) : log[j].svc = "serpapi"

\* the web search was called for record k, and its call returned results
\* none of whose links holds the pattern of an identifier
LinksWithoutId(k) ==
    \E j \in CallsFor(k) :
        /\ log[j].svc = "serpapi"
        /\ log[j].out.results # <<>>
        /\ WithDoi(log[j].out.results) = {}

\* the link of the first result of the web search for record k
FirstLink(k) ==
    LET j == CHOOSE j \in CallsFor(k) : log[j].svc = "serpapi"
    IN  log[j].out.results[1].link

\* C6: when the index finds no identifier and the web search returns
\* results but no link with an identifier pattern, the emitted row has
\* identifier NOT_FOUND and the first result's link as its URL.
C6_AsStated ==
    \A k \in 1..Len(rows) :
        LinksWithoutId(k) =>
            rows[k].found_doi = NOT_FOUND /\ rows[k].found_url = FirstLink(k)

\* a row emitted for a record whose web search returned a first link, and
\* no link with an identifier
C6_Witness ==
    \E k \in 1..Len(rows) : LinksWithoutId(k) /\ FirstLink(k) # <<>>

\* every tier failed for record k: its own identifier does not normalize, no
\* query of the index returned an item with an identifier field, and the web
\* search, where it was called, returned no result
AllTiersFail(k) ==
    /\ normalize_doi(df[k].doi) = None
    /\ \A j \in CallsFor(k) :
           IF log[j].svc = "crossref" THEN ~HasDoi(log[j].out)
           ELSE log[j].out.results = <<>>

\* the tag of the last tier that was attempted for record k
LastAttempted(k) ==
    IF \E j \in CallsFor(k) : log[j].svc = "serpapi" THEN "scholar" ELSE "crossref"

\* C7 as stated: when every tier fails the row has NOT_FOUND, an empty URL
\* and the tag of the last tier attempted (the web search when it was called).
C7_AsStated ==
    \A k \in 1..Len(rows) :
        AllTiersFail(k) =>
            /\ rows[k].found_doi = NOT_FOUND
            /\ rows[k].found_url = <<>>
            /\ rows[k].source = LastAttempted(k)

\* C7: when every tier fails the row has NOT_FOUND, an empty URL and the
\* tag of the index, whether or not the web search was called; a row has
\* the tag of the web search only when the web search returned an identifier.
C7_FailureKeepsIndexTag ==
    \A k \in 1..Len(rows) :
        /\ AllTiersFail(k) =>
               /\ rows[k].found_doi = NOT_FOUND
               /\ rows[k].found_url = <<>>
               /\ rows[k].source = "crossref"
        /\ rows[k].source = "scholar" =>
               \E j \in CallsFor(k) :
                   log[j].svc = "serpapi" /\ log[j].out.doi # NOT_FOUND
                       /\ rows[k].found_doi = log[j].out.doi

\* a row emitted after every tier failed, the web search among them
C7_Witness ==
    \E k \in 1..Len(rows) :
        AllTiersFail(k) /\ LastAttempted(k) = "scholar"

\* C9: no failure of a call aborts the run, and a finished run has emitted
\* exactly one row for each of the first min(n, number of records) records,
\* in the order of the input.
C9_AsStated ==
    /\ pc # "aborted"
    /\ pc = "done" =>
           /\ Len(rows) = Min(args_n, Len(df))
           /\ \A k \in 1..Len(rows) : rows[k].cov = CovId(df[k])

\* a finished run with a row for each record, in which a query of the index
\* and a web search failed
C9_Witness ==
    /\ pc = "done" /\ Len(rows) = Len(df)
    /\ \E j \in 1..Len(log) :
           log[j].op = "GET" /\ log[j].svc = "crossref" /\ log[j].out = None
    /\ \E j \in 1..Len(log) :
           log[j].op = "GET" /\ log[j].svc = "serpapi" /\ log[j].out.results = <<>>

---------------------------------------------------------------------------
(* find_age.py: fetching the full text.  A response of the web is a record:
   kind as for the search services ("exception", "status", "ok"), ctype its
   Content-Type, raises whether the extractor or parser raises on its body,
   text the text that pdf_extract_text or soup.get_text gets from the body,
   anchors the <a href> of an HTML body with their labels.  polite_get of
   find_age.py is polite_get of find_links.py without params. *)

StartsWith(s, lit) == LitAt(s, 0, lit)

EndsWith(s, lit) == Len(s) >= Len(lit) /\ LitAt(s, Len(s) - Len(lit), lit)

\* "pdf" in s.lower()
HasPdf(s) == Contains(Lower(s), Chars("pdf"))

looks_like_pdf_url(url) ==
    \/ EndsWith(Lower(url), Chars(".pdf"))
    \/ Contains(SplitHead(SplitHead(Lower(url), <<"?">>), <<"#">>), Chars("pdf"))

\* scheme://host of an absolute URL
Origin(url) ==
    LET a == MinOf({i \in 0..Len(url) : LitAt(url, i, Chars("://"))}) + 3
    IN  Prefix(url, a + Len(SplitHead(From(url, a), <<"/">>)))

\* the path of an absolute URL up to its last "/", "/" when it has none
DirOf(url) ==
    LET path == SplitHead(SplitHead(From(url, Len(Origin(url))), <<"?">>), <<"#">>)
        cuts == {i \in 1..Len(path) : path[i] = "/"}
    IN  IF cuts = {} THEN <<"/">> ELSE Prefix(path, MaxOf(cuts))

\* urljoin(url, h) for an absolute url and an h that is absolute, or a path
\* from the root, or a path without dot segments from the directory of url
urljoin(url, h) ==
    IF Contains(h, Chars("://")) THEN h
    ELSE IF StartsWith(h, <<"/">>) THEN Origin(url) \o h
    ELSE Origin(url) \o DirOf(url) \o h

\* return "", ""
NoText(events) == [text |-> <<>>, src |-> <<>>, events |-> events]

\* (text or "", url) of the try around pdf_extract_text
FromPdf(r, url, events) ==
    IF r.raises THEN NoText(events)
    ELSE [text |-> r.text, src |-> url, events |-> events]

\* cand, joined to url
Candidates(url, anchors) ==
    LET cand == SelectSeq(anchors, LAMBDA a : HasPdf(a.href) \/ HasPdf(a.label))
    IN  [k \in 1..Len(cand) |-> urljoin(url, cand[k].href)]

\* pdf_urls[:3]
FirstThree(pdf_urls) == SubSeq(pdf_urls, 1, Min(3, Len(pdf_urls)))

\* pr and ("pdf" in Content-Type or looks_like_pdf_url(pu)), then a text
\* that pdf_extract_text gives without raising and that is not empty
GivesText(pr, pu) ==
    /\ pr # None
    /\ HasPdf(Val(pr).ctype) \/ looks_like_pdf_url(pu)
    /\ ~Val(pr).raises
    /\ Val(pr).text # <<>>

\* for pu in pdf_urls[:3], from the k-th on: one polite_get after the other;
\* after the loop the text of the page itself
RECURSIVE TryCandidates(_, _, _, _, _)
TryCandidates(pdf_urls, cw, k, page, events) ==
    IF k > Len(pdf_urls)
    THEN [text |-> page.text, src |-> page.src, events |-> events]
    ELSE IF GivesText(polite_get(cw[k]), pdf_urls[k])
    THEN [text |-> cw[k].text, src |-> pdf_urls[k],
          events |-> Append(events, GetEvent("web", pdf_urls[k], cw[k].kind))]
    ELSE TryCandidates(pdf_urls, cw, k + 1, page,
                       Append(events, GetEvent("web", pdf_urls[k], cw[k].kind)))

\* fetch_fulltext_from_url after r = polite_get(url)
Fetched(url, r, cw, events) ==
    IF r = None THEN NoText(events)
    ELSE IF HasPdf(Val(r).ctype) \/ looks_like_pdf_url(url)
    THEN FromPdf(Val(r), url, events)
    ELSE IF Val(r).raises THEN NoText(events)
    ELSE TryCandidates(FirstThree(Candidates(url, Val(r).anchors)), cw, 1,
                       [text |-> Val(r).text, src |-> url], events)

\* w answers the request for url, cw[k] the request for the k-th candidate
fetch_fulltext_from_url(url, w, cw) ==
    IF url = <<>> \/ ~StartsWith(Lower(url), Chars("http")) THEN NoText(<<>>)
    ELSE Fetched(url, polite_get(w), cw, <<GetEvent("web", url, w.kind)>>)

---------------------------------------------------------------------------
(* find_age.py: main, one step for each iteration of its loop.
   pc: "loop" at the head of the loop, "done" after it. *)

\* sep.join(ss)
RECURSIVE Join(_, _)
Join(ss, sep) ==
    IF ss = <<>> THEN ""
    ELSE IF Len(ss) = 1 THEN ss[1]
    ELSE ss[1] \o sep \o Join(Tail(ss), sep)

\* raw_cov.replace("#", "") if raw_cov else "(unknown-id)"
CovNum(row) ==
    IF Strip(Str(row.cov)) # <<>> THEN Remove(Strip(Str(row.cov)), "#")
    ELSE Chars("(unknown-id)")

\* the row of a record without URL
NoUrlRow(row) ==
    [cov |-> CovNum(row), decision |-> "UnknownAge", reasons |-> "No URL provided",
     source_url |-> <<>>, evidence |-> <<>>]

\* the row of a decision
DecisionRow(d) ==
    [cov |-> d.covidence_num, decision |-> d.decision, reasons |-> Join(d.reasons, "; "),
     source_url |-> d.source_url, evidence |-> d.evidence]

linkVars == <<df, args_n, serpapi_key, tried, found_doi, found_url, source>>

AgeNoUrl ==
    /\ pc = "loop" /\ row_i <= Len(df) /\ processed < args_n
    /\ Strip(Str(df[row_i].url)) = <<>>
    /\ rows' = Append(rows, NoUrlRow(df[row_i]))
    /\ processed' = processed + 1
    /\ row_i' = row_i + 1
    /\ UNCHANGED <<pc, linkVars, log, text, evid, dec>>

\* the rest of the iteration after f = fetch_fulltext_from_url(url)
Screened(f) ==
    /\ text' = f.text
    /\ evid' = IF f.text # <<>> THEN extract_age_evidence(f.text) ELSE <<>>
    /\ dec' = decide_age(evid', CovNum(df[row_i]), f.src)
    /\ rows' = Append(rows, DecisionRow(dec'))
    /\ processed' = processed + 1
    /\ log' = log \o Tag(Append(f.events, SleepEvent(300)), row_i)
    /\ row_i' = row_i + 1
    /\ UNCHANGED <<pc, linkVars>>

A_pdf1 == [href |-> Chars("/f/1.pdf"), label |-> Chars("Download")]
A_home == [href |-> Chars("https://j.org/"), label |-> Chars("Home")]
A_label == [href |-> Chars("https://cdn.org/get?id=2"), label |-> Chars("Full text (PDF)")]
A_pdf3 == [href |-> Chars("s3.PDF"), label |-> <<>>]
A_pdf4 == [href |-> Chars("/f/4.pdf"), label |-> <<>>]

T_adults == Chars("adults aged 20-25 years")
T_pupils == Chars("Grade 3-5 pupils")

WebFailures ==
    {[kind |-> k, ctype |-> <<>>, raises |-> FALSE, text |-> <<>>, anchors |-> <<>>] :
        k \in {"exception", "status"}}

PdfResponse(raises, txt) ==
    [kind |-> "ok", ctype |-> Chars("application/pdf"), raises |-> raises,
     text |-> txt, anchors |-> <<>>]

HtmlResponse(raises, txt, anchors) ==
    [kind |-> "ok", ctype |-> Chars("text/html; charset=utf-8"), raises |-> raises,
     text |-> txt, anchors |-> anchors]

\* what the URL of a record may answer
PageResponses ==
    WebFailures
    \cup {PdfResponse(FALSE, P_mean85), PdfResponse(TRUE, <<>>),
          HtmlResponse(TRUE, <<>>, <<>>), HtmlResponse(FALSE, <<>>, <<A_home>>),
          HtmlResponse(FALSE, T_pupils, <<A_pdf1, A_home, A_label, A_pdf3, A_pdf4>>),
          HtmlResponse(FALSE, T_pupils, <<A_home, A_label>>)}

\* what the URL of a candidate may answer
CandidateResponses ==
    {[kind |-> "status", ctype |-> <<>>, raises |-> FALSE, text |-> <<>>, anchors |-> <<>>],
     PdfResponse(FALSE, T_adults), PdfResponse(TRUE, <<>>),
     HtmlResponse(FALSE, T_pupils, <<>>)}

AgeScreen ==
    /\ pc = "loop" /\ row_i <= Len(df) /\ processed < args_n
    /\ Strip(Str(df[row_i].url)) # <<>>
    /\ \E w \in PageResponses, cw \in [1..3 -> CandidateResponses] :
           Screened(fetch_fulltext_from_url(Strip(Str(df[row_i].url)), w, cw))

AgeExit ==
    /\ pc = "loop" /\ (row_i > Len(df) \/ processed >= args_n)
    /\ pc' = "done"
    /\ UNCHANGED <<mainVars, text, evid, dec>>

U_page == [cov |-> Chars("#293"), url |-> Chars("https://j.org/a/293?x=1")]
U_pdf == [cov |-> Chars(" 41"), url |-> Chars("https://j.org/f/41.pdf")]
U_nan == [cov |-> NaN, url |-> NaN]
U_blank == [cov |-> Chars("  "), url |-> Chars("  ")]

AgeRecords == {U_page, U_pdf, U_nan, U_blank}

AgeTables ==
    {d \in SeqsUpTo(AgeRecords, MaxRows) :
        \A a, b \in 1..Len(d) : a # b => d[a] # d[b]}

InitAge ==
    /\ pc = "loop"
    /\ df \in AgeTables
    /\ args_n \in 1..MaxRows
    /\ serpapi_key = None
    /\ row_i = 1 /\ tried = 0 /\ rows = <<>> /\ log = <<>>
    /\ found_doi = <<>> /\ found_url = <<>> /\ source = ""
    /\ processed = 0 /\ text = <<>> /\ evid = <<>> /\ dec = NoDecision

NextAge ==
    \/ AgeNoUrl
    \/ AgeScreen
    \/ AgeExit

SpecAge == InitAge /\ [][NextAge]_vars

---------------------------------------------------------------------------
(* Claim on the pacing of the network calls (SpecAge) *)

\* C8: each network call is followed by a delay before the next network
\* call is issued: no two calls are issued one right after the other.
C8_AsStated ==
    \A j \in 1..(Len(log) - 1) : ~(log[j].op = "GET" /\ log[j + 1].op = "GET")

\* a finished run that fetched a page and three candidates for one record
C8_Witness ==
    /\ pc = "done"
    /\ \E k \in 1..Len(rows) :
           Cardinality({j \in 1..Len(log) : log[j].op = "GET" /\ log[j].rec = k}) = 4
====
